---- MODULE Spec2Model ----
(***************************************************************************)
(* Coupon management service: the coupon catalog (POST /coupons,           *)
(* GET /coupons), the usage tracker and the best-coupon selection          *)
(* (POST /coupons/best), with the eligibility and discount services.       *)
(*                                                                         *)
(* Encoding of JavaScript values                                           *)
(*   - a JSON object is a record; an absent (undefined) field is a key     *)
(*     missing from DOMAIN;                                                *)
(*   - null in a numeric field of a stored Coupon is the integer Null;     *)
(*   - a string that the code inspects character by character (coupon      *)
(*     code, category) is a sequence of code points (65..90 = A..Z,        *)
(*     97..122 = a..z, 32 = space); other strings are TLA+ strings;        *)
(*   - a date string is a pair <<t, z>>: the local time t written with the *)
(*     time-zone offset z (both in clock units), or BadDate when           *)
(*     unparseable;                                                        *)
(*   - money is an integer; a computed discount is kept in hundredths      *)
(*     because PERCENT divides by 100.                                     *)
(***************************************************************************)
EXTENDS Integers, Sequences, FiniteSets, TLC

VARIABLES coupons, userUsage, now, req, res

vars == <<coupons, userUsage, now, req, res>>

-----------------------------------------------------------------------------
(* Bounds of the model *)

\* the clock read by new Date() runs over 0..MaxNow
MaxNow == 2
\* selections are explored while fewer than MaxUses uses are recorded in all
MaxUses == 2

-----------------------------------------------------------------------------
(* JavaScript values *)

Null == -99
NaN == -98

Has(o, k) == k \in DOMAIN o

\* o.k, with undefined and null both read as Null
Field(o, k) == IF k \in DOMAIN o THEN o[k] ELSE Null

Min(a, b) == IF a <= b THEN a ELSE b

Sign(n) == IF n < 0 THEN -1 ELSE IF n > 0 THEN 1 ELSE 0

\* String.prototype.toLowerCase on a sequence of code points
ToLowerCase(s) == [i \in DOMAIN s |-> IF s[i] \in 65..90 THEN s[i] + 32 ELSE s[i]]

\* String.prototype.trim
RECURSIVE TrimLeft(_)
TrimLeft(s) == IF s # << >> /\ Head(s) = 32 THEN TrimLeft(Tail(s)) ELSE s

RECURSIVE TrimRight(_)
TrimRight(s) ==
  IF s # << >> /\ s[Len(s)] = 32 THEN TrimRight(SubSeq(s, 1, Len(s) - 1)) ELSE s

Trim(s) == TrimRight(TrimLeft(s))

\* comparison of two sequences of numbers: the first position where they
\* differ decides, else the shorter sequence is smaller
CompareSeq(s, t) ==
  LET n == Min(Len(s), Len(t))
      diff == {i \in 1..n : s[i] # t[i]}
  IN  IF diff # {}
        THEN LET i == CHOOSE j \in diff : \A k \in diff : j <= k
             IN  Sign(s[i] - t[i])
        ELSE Sign(Len(s) - Len(t))

\* the canonical decomposition of a character: U+00E1 (a with acute) is
\* U+0061 followed by the combining acute accent U+0301
Decompose(c) == IF c = 225 THEN <<97, 769>> ELSE <<c>>

RECURSIVE Normalize(_)
\* the string in canonical decomposed form
Normalize(s) ==
  IF s = << >> THEN << >> ELSE Decompose(Head(s)) \o Normalize(Tail(s))

IsCombining(c) == c = 769

\* collation weights of a character: its base letter (none for a combining
\* accent), then its accent, then lower case before upper
PrimaryWeight(c) == IF c \in 65..90 THEN c + 32 ELSE c
SecondaryWeight(c) == IF IsCombining(c) THEN 1 ELSE 0
TertiaryWeight(c) == IF c \in 65..90 THEN 1 ELSE 0
PrimaryWeights(s) ==
  LET Base(c) == ~IsCombining(c)
      letters == SelectSeq(Normalize(s), Base)
  IN  [i \in DOMAIN letters |-> PrimaryWeight(letters[i])]
SecondaryWeights(s) ==
  LET n == Normalize(s) IN [i \in DOMAIN n |-> SecondaryWeight(n[i])]
TertiaryWeights(s) ==
  LET n == Normalize(s) IN [i \in DOMAIN n |-> TertiaryWeight(n[i])]

\* String.prototype.localeCompare (default collation): strings are compared in
\* canonical decomposed form, so canonically equivalent strings compare equal;
\* base letters are compared first over the whole string, then the accents,
\* and letter case only breaks a tie
LocaleCompare(s, t) ==
  LET p == CompareSeq(PrimaryWeights(s), PrimaryWeights(t))
      q == CompareSeq(SecondaryWeights(s), SecondaryWeights(t))
  IN  IF p # 0 THEN p
      ELSE IF q # 0 THEN q
      ELSE CompareSeq(TertiaryWeights(s), TertiaryWeights(t))

\* order of the strings by code point (the < operator of JavaScript strings)
CodePointCompare(s, t) == CompareSeq(s, t)

BadDate == << >>

\* new Date(s).getTime(): the instant of the local time s[1] at offset s[2],
\* NaN for an unparseable string
GetTime(s) == IF s = BadDate THEN NaN ELSE s[1] - s[2]

\* the relational operators of JavaScript numbers: false when either side is
\* NaN; an absent (undefined) operand, read as Null, converts to NaN
NumLt(a, b) == a # NaN /\ b # NaN /\ a # Null /\ b # Null /\ a < b
NumGt(a, b) == NumLt(b, a)
NumLe(a, b) == a # NaN /\ b # NaN /\ a # Null /\ b # Null /\ a <= b
NumGe(a, b) == NumLe(b, a)

\* usageLimitPerUser is any JSON number: it is kept in halves of a use, the
\* usage counts in whole uses
LimitUnit == 2

\* x || null on a number or an absent field
OrNull(x) == IF x = Null \/ x = 0 \/ x = NaN THEN Null ELSE x

EmptyObject == [k \in {} |-> 0]

-----------------------------------------------------------------------------
(* models/coupon.js *)

\* categories.map(cat => cat.toLowerCase())
LowerAll(cats) == [i \in DOMAIN cats |-> ToLowerCase(cats[i])]

\* variant: only applicableCategories is lower-cased
normalizeEligibility_OnlyApplicable(eligibility) ==
  [k \in DOMAIN eligibility |->
     IF k = "applicableCategories" THEN LowerAll(eligibility[k]) ELSE eligibility[k]]

normalizeEligibility(eligibility) ==
  [k \in DOMAIN eligibility |->
     IF k \in {"applicableCategories", "excludedCategories"}
       THEN LowerAll(eligibility[k])
       ELSE eligibility[k]]

Coupon(data) ==
  [code              |-> data.code,
   description       |-> data.description,
   discountType      |-> data.discountType,
   discountValue     |-> data.discountValue,
   maxDiscountAmount |-> OrNull(Field(data, "maxDiscountAmount")),
   startDate         |-> data.startDate,
   endDate           |-> data.endDate,
   usageLimitPerUser |-> OrNull(Field(data, "usageLimitPerUser")),
   eligibility       |-> normalizeEligibility(
                           IF Has(data, "eligibility") THEN data.eligibility
                                                       ELSE EmptyObject)]

Err(cond, message) == IF cond THEN <<message>> ELSE << >>

\* a numeric eligibility field that is present and negative
NegativeRule(data, k) ==
  /\ Has(data, "eligibility")
  /\ Field(data.eligibility, k) # Null
  /\ data.eligibility[k] < 0

\* Coupon.validate: the list of errors of a submitted coupon
validate(couponData) ==
  LET start == IF Has(couponData, "startDate") THEN GetTime(couponData.startDate)
                                               ELSE NaN
      end   == IF Has(couponData, "endDate") THEN GetTime(couponData.endDate)
                                             ELSE NaN
  IN  Err(~Has(couponData, "code") \/ couponData.code = << >>,
          "code is required and must be a string")
   \o Err(Has(couponData, "code") /\ couponData.code # << >>
            /\ Trim(couponData.code) = << >>,
          "code cannot be empty")
   \o Err(~Has(couponData, "description") \/ couponData.description = "",
          "description is required and must be a string")
   \o Err(~Has(couponData, "discountType")
            \/ couponData.discountType \notin {"FLAT", "PERCENT"},
          "discountType is required and must be FLAT or PERCENT")
   \o Err(~Has(couponData, "discountValue") \/ couponData.discountValue <= 0,
          "discountValue is required and must be a positive number")
   \o Err(Field(couponData, "maxDiscountAmount") # Null
            /\ couponData.maxDiscountAmount <= 0,
          "maxDiscountAmount must be a positive number if provided")
   \o Err(~Has(couponData, "startDate"), "startDate is required")
   \o Err(~Has(couponData, "endDate"), "endDate is required")
   \o Err(start = NaN, "startDate must be a valid date in ISO 8601 format")
   \o Err(end = NaN, "endDate must be a valid date in ISO 8601 format")
   \o Err(start # NaN /\ end # NaN /\ start > end,
          "startDate must be before or equal to endDate")
   \o Err(Field(couponData, "usageLimitPerUser") # Null
            /\ couponData.usageLimitPerUser < 0,
          "usageLimitPerUser must be a non-negative number if provided")
   \o Err(NegativeRule(couponData, "minLifetimeSpend"),
          "eligibility.minLifetimeSpend must be a non-negative number if provided")
   \o Err(NegativeRule(couponData, "minOrdersPlaced"),
          "eligibility.minOrdersPlaced must be a non-negative number if provided")
   \o Err(NegativeRule(couponData, "minCartValue"),
          "eligibility.minCartValue must be a non-negative number if provided")
   \o Err(NegativeRule(couponData, "minItemsCount"),
          "eligibility.minItemsCount must be a non-negative number if provided")

-----------------------------------------------------------------------------
(* services/discountService.js and the eligibility service *)

Hundred == 100

RECURSIVE SumValue(_)
\* items.reduce((sum, item) => sum + item.unitPrice * item.quantity, 0)
SumValue(items) ==
  IF items = << >> THEN 0
  ELSE Head(items).unitPrice * Head(items).quantity + SumValue(Tail(items))

RECURSIVE SumQuantity(_)
\* items.reduce((sum, item) => sum + item.quantity, 0)
SumQuantity(items) ==
  IF items = << >> THEN 0 ELSE Head(items).quantity + SumQuantity(Tail(items))

\* cart.items || []
ItemsOf(cart) == IF Has(cart, "items") THEN cart.items ELSE << >>

getCartValue(cart) == SumValue(ItemsOf(cart))

\* variant: the discount is not held to the value of the cart
calculateDiscount_Uncapped(coupon, cart) ==
  LET cartValue == getCartValue(cart)
      percent   == cartValue * coupon.discountValue
  IN  IF coupon.discountType = "FLAT" THEN Hundred * coupon.discountValue
      ELSE IF coupon.discountType = "PERCENT"
        THEN IF coupon.maxDiscountAmount # Null
               THEN Min(percent, Hundred * coupon.maxDiscountAmount)
               ELSE percent
        ELSE 0

\* variant: maxDiscountAmount is not applied
calculateDiscount_NoCap(coupon, cart) ==
  LET cartValue == getCartValue(cart)
      discount  ==
        IF coupon.discountType = "FLAT" THEN Hundred * coupon.discountValue
        ELSE IF coupon.discountType = "PERCENT" THEN cartValue * coupon.discountValue
        ELSE 0
  IN  Min(discount, Hundred * cartValue)

\* DiscountService.calculateDiscount, in hundredths of the money unit
calculateDiscount(coupon, cart) ==
  LET cartValue == getCartValue(cart)
      percent   == cartValue * coupon.discountValue
      discount  ==
        IF coupon.discountType = "FLAT" THEN Hundred * coupon.discountValue
        ELSE IF coupon.discountType = "PERCENT"
          THEN IF coupon.maxDiscountAmount # Null
                 THEN Min(percent, Hundred * coupon.maxDiscountAmount)
                 ELSE percent
          ELSE 0
  IN  Min(discount, Hundred * cartValue)

\* array.includes(x)
Includes(array, x) == \E i \in DOMAIN array : array[i] = x

\* variant: minOrdersPlaced also rejects a user with exactly that many orders
checkUserEligibility_StrictOrders(eligibility, userContext) ==
  /\ Has(eligibility, "allowedUserTiers")
       => Includes(eligibility.allowedUserTiers, userContext.userTier)
  /\ Field(eligibility, "minLifetimeSpend") # Null
       => ~NumLt(Field(userContext, "lifetimeSpend"), eligibility.minLifetimeSpend)
  /\ Field(eligibility, "minOrdersPlaced") # Null
       => ~NumLe(Field(userContext, "ordersPlaced"), eligibility.minOrdersPlaced)
  /\ (Has(eligibility, "firstOrderOnly") /\ eligibility.firstOrderOnly = TRUE)
       => ~NumGt(Field(userContext, "ordersPlaced"), 0)
  /\ Has(eligibility, "allowedCountries")
       => Includes(eligibility.allowedCountries, userContext.country)

checkUserEligibility(eligibility, userContext) ==
  /\ Has(eligibility, "allowedUserTiers")
       => Includes(eligibility.allowedUserTiers, userContext.userTier)
  /\ Field(eligibility, "minLifetimeSpend") # Null
       => ~NumLt(Field(userContext, "lifetimeSpend"), eligibility.minLifetimeSpend)
  /\ Field(eligibility, "minOrdersPlaced") # Null
       => ~NumLt(Field(userContext, "ordersPlaced"), eligibility.minOrdersPlaced)
  /\ (Has(eligibility, "firstOrderOnly") /\ eligibility.firstOrderOnly = TRUE)
       => ~NumGt(Field(userContext, "ordersPlaced"), 0)
  /\ Has(eligibility, "allowedCountries")
       => Includes(eligibility.allowedCountries, userContext.country)

\* items.map(item => item.category.toLowerCase())
CartCategories(items) == [i \in DOMAIN items |-> ToLowerCase(items[i].category)]

checkCartEligibility(eligibility, cart) ==
  LET items == ItemsOf(cart)
      cartValue == SumValue(items)
      cartCategories == CartCategories(items)
  IN  /\ Field(eligibility, "minCartValue") # Null
           => ~(cartValue < eligibility.minCartValue)
      /\ Has(eligibility, "applicableCategories")
           => \E i \in DOMAIN cartCategories :
                 Includes(eligibility.applicableCategories, cartCategories[i])
      /\ Has(eligibility, "excludedCategories")
           => ~\E i \in DOMAIN cartCategories :
                 Includes(eligibility.excludedCategories, cartCategories[i])
      /\ Field(eligibility, "minItemsCount") # Null
           => ~(SumQuantity(items) < eligibility.minItemsCount)

checkEligibility(coupon, userContext, cart) ==
  /\ checkUserEligibility(coupon.eligibility, userContext)
  /\ checkCartEligibility(coupon.eligibility, cart)

-----------------------------------------------------------------------------
(* The routes: the catalog, the usage tracker and the three handlers *)

\* the codes of the catalog, in the insertion order of the Map
Codes(catalog) == {catalog[i].code : i \in DOMAIN catalog}

\* coupons.set(coupon.code, coupon): an existing key keeps its place
MapSet(catalog, coupon) ==
  IF coupon.code \in Codes(catalog)
    THEN [i \in DOMAIN catalog |->
            IF catalog[i].code = coupon.code THEN coupon ELSE catalog[i]]
    ELSE Append(catalog, coupon)

\* variant: the uses of the code by every user are counted together
usageCount_AnyUser(usage, userId, code) ==
  LET users == {u \in DOMAIN usage : code \in DOMAIN usage[u]}
      RECURSIVE Sum(_)
      Sum(S) == IF S = {} THEN 0
                ELSE LET u == CHOOSE v \in S : TRUE
                     IN  usage[u][code] + Sum(S \ {u})
  IN  Sum(users)

\* (userUsage.get(userId) || new Map()).get(code) || 0
usageCount(usage, userId, code) ==
  IF userId \in DOMAIN usage /\ code \in DOMAIN usage[userId]
    THEN usage[userId][code]
    ELSE 0

\* variant: the user's map is made anew on every use
incrementUsage_FreshMap(usage, userId, couponCode) ==
  LET currentCount == usageCount(usage, userId, couponCode)
  IN  [u \in DOMAIN usage \cup {userId} |->
         IF u = userId THEN [c \in {couponCode} |-> currentCount + 1]
                       ELSE usage[u]]

incrementUsage(usage, userId, couponCode) ==
  LET userCouponUsage == IF userId \in DOMAIN usage THEN usage[userId]
                                                     ELSE EmptyObject
      currentCount == IF couponCode \in DOMAIN userCouponUsage
                        THEN userCouponUsage[couponCode]
                        ELSE 0
  IN  [u \in DOMAIN usage \cup {userId} |->
         IF u = userId
           THEN [c \in DOMAIN userCouponUsage \cup {couponCode} |->
                   IF c = couponCode THEN currentCount + 1 ELSE userCouponUsage[c]]
           ELSE usage[u]]

\* variant: now < endDate
InDateRange_ExclusiveEnd(coupon, instant) ==
  /\ NumGe(instant, GetTime(coupon.startDate))
  /\ NumLt(instant, GetTime(coupon.endDate))

\* now >= startDate && now <= endDate
InDateRange(coupon, instant) ==
  /\ NumGe(instant, GetTime(coupon.startDate))
  /\ NumLe(instant, GetTime(coupon.endDate))

\* variant: usageCount > limit skips the coupon
UnderUsageLimit_OffByOne(coupon, usage, userId) ==
  coupon.usageLimitPerUser # Null
    => ~(LimitUnit * usageCount(usage, userId, coupon.code)
           > coupon.usageLimitPerUser)

\* the usage-limit check of the selection: false when the coupon is skipped
UnderUsageLimit(coupon, usage, userId) ==
  coupon.usageLimitPerUser # Null
    => ~(LimitUnit * usageCount(usage, userId, coupon.code)
           >= coupon.usageLimitPerUser)

\* the coupons within their date range and usage limit, in catalog order
ActiveCoupons(catalog, usage, userId, instant) ==
  LET Active(coupon) == /\ InDateRange(coupon, instant)
                        /\ UnderUsageLimit(coupon, usage, userId)
  IN  SelectSeq(catalog, Active)

\* activeCoupons.filter(coupon => checkEligibility(coupon, userContext, cart))
EligibleCoupons(active, userContext, cart) ==
  LET Eligible(coupon) == checkEligibility(coupon, userContext, cart)
  IN  SelectSeq(active, Eligible)

\* variant: a.discount - b.discount
CompareCoupons_LowestDiscountFirst(a, b) ==
  IF b.discount # a.discount THEN a.discount - b.discount
  ELSE IF GetTime(a.coupon.endDate) # GetTime(b.coupon.endDate)
    THEN GetTime(a.coupon.endDate) - GetTime(b.coupon.endDate)
  ELSE LocaleCompare(a.coupon.code, b.coupon.code)

\* variant: the endDate comparison is left out
CompareCoupons_NoEndDate(a, b) ==
  IF b.discount # a.discount THEN b.discount - a.discount
  ELSE LocaleCompare(a.coupon.code, b.coupon.code)

\* the comparator of couponsWithDiscounts.sort: negative when a goes first
CompareCoupons(a, b) ==
  IF b.discount # a.discount THEN b.discount - a.discount
  ELSE IF GetTime(a.coupon.endDate) # GetTime(b.coupon.endDate)
    THEN GetTime(a.coupon.endDate) - GetTime(b.coupon.endDate)
  ELSE LocaleCompare(a.coupon.code, b.coupon.code)

\* x put into a sorted array behind every element that does not go after it
Insert(sorted, x) ==
  LET after == {i \in DOMAIN sorted : CompareCoupons(x, sorted[i]) < 0}
      k == IF after = {} THEN Len(sorted) + 1
           ELSE CHOOSE i \in after : \A j \in after : i <= j
  IN  SubSeq(sorted, 1, k - 1) \o <<x>> \o SubSeq(sorted, k, Len(sorted))

RECURSIVE SortFrom(_, _)
SortFrom(sorted, rest) ==
  IF rest = << >> THEN sorted ELSE SortFrom(Insert(sorted, Head(rest)), Tail(rest))

\* Array.prototype.sort with CompareCoupons (a stable sort)
Sort(array) == SortFrom(<< >>, array)

WithDiscounts(eligible, cart) ==
  [i \in DOMAIN eligible |->
     [coupon |-> eligible[i], discount |-> calculateDiscount(eligible[i], cart)]]

NoCoupon == EmptyObject

\* the request validation of POST /coupons/best: the error, or "" when accepted
BestRequestError(body) ==
  IF ~Has(body, "userContext") THEN "userContext is required"
  ELSE IF ~Has(body, "cart") \/ ~Has(body.cart, "items")
    THEN "cart with items array is required"
  ELSE IF \/ ~Has(body.userContext, "userId") \/ body.userContext.userId = ""
          \/ ~Has(body.userContext, "userTier") \/ body.userContext.userTier = ""
          \/ ~Has(body.userContext, "country") \/ body.userContext.country = ""
    THEN "userContext must include userId, userTier, and country"
  ELSE IF \E i \in DOMAIN body.cart.items :
            LET item == body.cart.items[i]
            IN  \/ ~Has(item, "productId") \/ item.productId = ""
                \/ ~Has(item, "category") \/ item.category = << >>
                \/ ~Has(item, "unitPrice")
                \/ ~Has(item, "quantity")
    THEN "Each cart item must have productId, category, unitPrice (number), and quantity (number)"
  ELSE ""

\* the selection of POST /coupons/best at the instant read from the clock:
\* the sorted (coupon, discount) pairs of the surviving coupons
Ranked(catalog, usage, body, instant) ==
  Sort(WithDiscounts(
         EligibleCoupons(
           ActiveCoupons(catalog, usage, body.userContext.userId, instant),
           body.userContext, body.cart),
         body.cart))

\* startDate.toISOString() of the skip log throws on an invalid date
SkipLogThrows(catalog, instant) ==
  \E i \in DOMAIN catalog :
     /\ ~InDateRange(catalog[i], instant)
     /\ \/ GetTime(catalog[i].startDate) = NaN
        \/ GetTime(catalog[i].endDate) = NaN

\* the body of the answer of POST /coupons/best for a ranking
SelectionResult(ranked) ==
  IF Len(ranked) = 0 THEN <<NoCoupon, 0>>
  ELSE <<ranked[1].coupon, ranked[1].discount>>

TotalUses(usage) ==
  LET cells == {<<u, c>> \in UNION {{u} \X DOMAIN usage[u] : u \in DOMAIN usage} : TRUE}
      RECURSIVE Sum(_)
      Sum(S) == IF S = {} THEN 0
                ELSE LET x == CHOOSE y \in S : TRUE
                     IN  usage[x[1]][x[2]] + Sum(S \ {x})
  IN  Sum(cells)

\* GET /coupons
ListCoupons ==
  /\ req' = [op |-> "list"]
  /\ res' = [status |-> 200, count |-> Len(coupons), coupons |-> coupons]
  /\ UNCHANGED <<coupons, userUsage, now>>

\* variant: an accepted submission clears the usage tracker
CreateCoupon_ClearsUsage(couponData) ==
  /\ req' = [op |-> "create", body |-> couponData]
  /\ LET validationErrors == validate(couponData)
     IN  IF Len(validationErrors) > 0
           THEN /\ res' = [status |-> 400, details |-> validationErrors]
                /\ UNCHANGED <<coupons, userUsage>>
           ELSE LET coupon == Coupon(couponData)
                IN  /\ coupons' = MapSet(coupons, coupon)
                    /\ userUsage' = EmptyObject
                    /\ res' = [status |-> 201, coupon |-> coupon]
  /\ UNCHANGED now

\* POST /coupons
CreateCoupon(couponData) ==
  /\ req' = [op |-> "create", body |-> couponData]
  /\ LET validationErrors == validate(couponData)
     IN  IF Len(validationErrors) > 0
           THEN /\ res' = [status |-> 400, details |-> validationErrors]
                /\ UNCHANGED coupons
           ELSE LET coupon == Coupon(couponData)
                IN  /\ coupons' = MapSet(coupons, coupon)
                    /\ res' = [status |-> 201, coupon |-> coupon]
  /\ UNCHANGED <<userUsage, now>>

\* variant: the coupons that the user has used up to their limit are left out
filterActiveCoupons_ChecksUsage(catalog, userContext, instant) ==
  ActiveCoupons(catalog, userUsage, userContext.userId, instant)

\* CouponService.filterActiveCoupons at the instant read from the clock: the
\* coupons within their date range; the usage limit is looked at, not applied
filterActiveCoupons(catalog, userContext, instant) ==
  LET Active(coupon) == /\ NumGe(instant, GetTime(coupon.startDate))
                        /\ NumLe(instant, GetTime(coupon.endDate))
  IN  SelectSeq(catalog, Active)

\* CouponService.findBestCoupon: null (the empty object) when no coupon is
\* eligible, else the first (coupon, discount) pair of the sort, whose
\* comparator is that of the route
findBestCoupon(catalog, userContext, cart, instant) ==
  LET activeCoupons == filterActiveCoupons(catalog, userContext, instant)
      Eligible(coupon) == checkEligibility(coupon, userContext, cart)
      eligibleCoupons == SelectSeq(activeCoupons, Eligible)
      couponsWithDiscounts == Sort(WithDiscounts(eligibleCoupons, cart))
  IN  IF Len(eligibleCoupons) = 0 THEN EmptyObject
      ELSE [coupon |-> couponsWithDiscounts[1].coupon,
            discount |-> couponsWithDiscounts[1].discount]

\* a call of CouponService.findBestCoupon on the catalog of the routes
FindBestCoupon(body, instant) ==
  /\ req' = [op |-> "find", body |-> body]
  /\ instant >= now
  /\ now' = instant
  /\ res' = [status |-> 0,
             result |-> findBestCoupon(coupons, body.userContext, body.cart, instant)]
  /\ UNCHANGED <<coupons, userUsage>>

\* router.getCoupons().set(coupon.code, coupon): a record put into the
\* exported Map without validation
PutCoupon(coupon) ==
  /\ req' = [op |-> "put", coupon |-> coupon]
  /\ coupons' = MapSet(coupons, coupon)
  /\ res' = [status |-> 0]
  /\ UNCHANGED <<userUsage, now>>

\* variant: the filters read the usage counts as they were before any use was
\* recorded, the increment is applied to the current counts
BestCoupon_StaleUsage(body, instant) ==
  /\ req' = [op |-> "best", body |-> body]
  /\ IF BestRequestError(body) # ""
       THEN /\ res' = [status |-> 400, error |-> BestRequestError(body)]
            /\ UNCHANGED <<userUsage, now>>
       ELSE /\ instant >= now
            /\ now' = instant
            /\ LET ranked == Ranked(coupons, EmptyObject, body, instant)
               IN  IF Len(ranked) = 0
                     THEN /\ res' = [status |-> 200, coupon |-> NoCoupon,
                                     discount |-> 0]
                          /\ UNCHANGED userUsage
                     ELSE /\ TotalUses(userUsage) < MaxUses
                          /\ userUsage' = incrementUsage(userUsage,
                                 body.userContext.userId, ranked[1].coupon.code)
                          /\ res' = [status |-> 200,
                                     coupon |-> ranked[1].coupon,
                                     discount |-> ranked[1].discount]
  /\ UNCHANGED coupons

\* POST /coupons/best, the clock reading instant
BestCoupon(body, instant) ==
  /\ req' = [op |-> "best", body |-> body]
  /\ IF BestRequestError(body) # ""
       THEN /\ res' = [status |-> 400, error |-> BestRequestError(body)]
            /\ UNCHANGED <<userUsage, now>>
       ELSE /\ instant >= now
            /\ now' = instant
            /\ IF SkipLogThrows(coupons, instant)
                 THEN /\ res' = [status |-> 500, error |-> "Internal server error"]
                      /\ UNCHANGED userUsage
                 ELSE LET ranked == Ranked(coupons, userUsage, body, instant)
                      IN  IF Len(ranked) = 0
                            THEN /\ res' = [status |-> 200, coupon |-> NoCoupon,
                                            discount |-> 0]
                                 /\ UNCHANGED userUsage
                            ELSE /\ TotalUses(userUsage) < MaxUses
                                 /\ userUsage' = incrementUsage(userUsage,
                                        body.userContext.userId, ranked[1].coupon.code)
                                 /\ res' = [status |-> 200,
                                            coupon |-> ranked[1].coupon,
                                            discount |-> ranked[1].discount]
  /\ UNCHANGED coupons

-----------------------------------------------------------------------------
(* The requests explored *)

\* the coupon codes "a" and "B"
CouponCodes == {<<97>>, <<66>>}

\* the category strings "E", "e" and "b"
CatUpperE == <<69>>
CatLowerE == <<101>>
CatLowerB == <<98>>

\* a valid submission: FLAT 4, valid over the instants 1..2, no limit, no rules
BaseCoupon(code) ==
  [code |-> code, description |-> "coupon", discountType |-> "FLAT",
   discountValue |-> 4, startDate |-> <<1, 0>>, endDate |-> <<2, 0>>]

With(data, k, v) == [j \in DOMAIN data \cup {k} |-> IF j = k THEN v ELSE data[j]]

\* the base coupon and variants of it: 50 percent ending at the instant 1; the
\* end instant 2 written with a time-zone offset; the limits 0, 1 and 2 (the
\* last on FLAT 2); a category rule written in upper case
ValidSubmissions(code) ==
  LET base == BaseCoupon(code)
  IN  {base,
       With(With(With(base, "discountType", "PERCENT"), "discountValue", 50),
            "endDate", <<1, 0>>),
       With(base, "endDate", <<3, 1>>),
       With(base, "usageLimitPerUser", 0),
       With(base, "usageLimitPerUser", 1 * LimitUnit),
       With(With(base, "discountValue", 2), "usageLimitPerUser", 2 * LimitUnit),
       With(base, "eligibility", [applicableCategories |-> <<CatUpperE>>])}

\* rejected submissions: startDate after endDate, a negative limit
InvalidSubmissions ==
  LET base == BaseCoupon(<<97>>)
  IN  {With(base, "startDate", <<3, 0>>),
       With(base, "usageLimitPerUser", -1 * LimitUnit)}

CouponInputs ==
  UNION {ValidSubmissions(code) : code \in CouponCodes} \cup InvalidSubmissions

UserGold ==
  [userId |-> "u1", userTier |-> "GOLD", country |-> "IN",
   lifetimeSpend |-> 5, ordersPlaced |-> 2]

\* a user context without the optional numeric fields
UserNew == [userId |-> "u2", userTier |-> "NEW", country |-> "US"]

Item(category, unitPrice, quantity) ==
  [productId |-> "p1", category |-> category, unitPrice |-> unitPrice,
   quantity |-> quantity]

Carts ==
  {[items |-> << >>],
   [items |-> <<Item(CatLowerE, 4, 1)>>],
   [items |-> <<Item(CatLowerB, 4, 2)>>]}

BestInputs ==
  {[userContext |-> u, cart |-> c] : u \in {UserGold, UserNew}, c \in Carts}
  \cup {[userContext |-> UserGold,
         cart |-> [items |-> <<[productId |-> "p1", category |-> CatLowerE]>>]]}

Instants == 0..MaxNow

-----------------------------------------------------------------------------
(* The specification *)

Init ==
  /\ coupons = << >>
  /\ userUsage = EmptyObject
  /\ now = 0
  /\ req = [op |-> "none"]
  /\ res = [status |-> 0]

Next ==
  \/ ListCoupons
  \/ \E couponData \in CouponInputs : CreateCoupon(couponData)
  \/ \E body \in BestInputs, instant \in Instants : BestCoupon(body, instant)

Spec == Init /\ [][Next]_vars

-----------------------------------------------------------------------------
(* Vocabulary of the properties *)

UserIds == {"u1", "u2"}

\* the last request was a selection that was answered with a result
Selected == req.op = "best" /\ res.status = 200

\* the last request was a selection that returned a coupon
Won == Selected /\ res.coupon # NoCoupon

ReqUser == req.body.userContext
ReqCart == req.body.cart

\* startInstant <= t <= endInstant
InWindow(c, t) == GetTime(c.startDate) <= t /\ t <= GetTime(c.endDate)

\* the coupon has no limit, or the user has redeemed it fewer times than it
LimitLeft(c, usage, userId) ==
  \/ c.usageLimitPerUser = Null
  \/ LimitUnit * usageCount(usage, userId, c.code) < c.usageLimitPerUser

\* the coupon passes the three filters of a selection
Survives(c, usage, userContext, cart, t) ==
  /\ InWindow(c, t)
  /\ LimitLeft(c, usage, userContext.userId)
  /\ checkEligibility(c, userContext, cart)

\* the catalog coupons other than the returned one that survive the filters of
\* the last selection (their usage counts are those the selection read)
OtherSurvivors ==
  {c \in {coupons[i] : i \in DOMAIN coupons} :
     /\ c.code # res.coupon.code
     /\ Survives(c, userUsage, ReqUser, ReqCart, now)}

-----------------------------------------------------------------------------
(* C1 *)

\* C1: when a selection returns a coupon, the coupon is in the catalog, the
\* returned discount is calculateDiscount(coupon, cart), and it is at least the
\* discount of every other catalog coupon that is in its window, under its
\* usage limit for the user and eligible for the user and cart.
C1_BestHasHighestDiscount ==
  Won =>
    /\ \E i \in DOMAIN coupons : coupons[i] = res.coupon
    /\ res.discount = calculateDiscount(res.coupon, ReqCart)
    /\ \A c \in OtherSurvivors : res.discount >= calculateDiscount(c, ReqCart)

\* a selection returned a coupon while another surviving coupon offered less
C1_Witness ==
  /\ Won
  /\ \E c \in OtherSurvivors : calculateDiscount(c, ReqCart) < res.discount

-----------------------------------------------------------------------------
(* C2, C3: the usage limit *)

Catalog == {coupons[i] : i \in DOMAIN coupons}

\* c has a limit and is the only coupon of the catalog that user and cart could
\* be given at the instant t: every other coupon fails one of the filters
OnlyCandidate(c, usage, userContext, cart, t) ==
  /\ c.usageLimitPerUser # Null
  /\ InWindow(c, t)
  /\ checkEligibility(c, userContext, cart)
  /\ \A d \in Catalog \ {c} : ~Survives(d, usage, userContext, cart, t)

\* C2: a selection by user u for which a coupon with limit L is the only
\* candidate returns that coupon and records one use while u has fewer than L
\* recorded uses of it, and returns (null, 0) and records nothing once u has L:
\* counted from no recorded use, the first L selections return the coupon and
\* every later one returns (null, 0).
C2_LimitedCouponFirstLCalls ==
  [][(req'.op = "best" /\ res'.status = 200) =>
       \A c \in Catalog :
         OnlyCandidate(c, userUsage, req'.body.userContext, req'.body.cart, now') =>
           LET u == req'.body.userContext.userId
               n == usageCount(userUsage, u, c.code)
           IN  /\ LimitUnit * n < c.usageLimitPerUser =>
                    /\ res'.coupon = c
                    /\ usageCount(userUsage', u, c.code) = n + 1
               /\ LimitUnit * n >= c.usageLimitPerUser =>
                    /\ res'.coupon = NoCoupon
                    /\ res'.discount = 0
                    /\ usageCount(userUsage', u, c.code) = n]_vars

\* a coupon with limit 2, the only candidate, was refused after two uses
C2_Witness ==
  /\ Selected
  /\ res.coupon = NoCoupon
  /\ \E c \in Catalog :
       /\ OnlyCandidate(c, userUsage, ReqUser, ReqCart, now)
       /\ c.usageLimitPerUser = 2 * LimitUnit
       /\ usageCount(userUsage, ReqUser.userId, c.code) = 2

\* C3: a coupon accepted by POST /coupons with a defined usageLimitPerUser L
\* (0 included) is returned by the selection that follows only if the user's
\* usage count of it is below L; with L = 0 it is never returned.
C3_DefinedLimitIsEnforced ==
  [][(/\ req.op = "create" /\ res.status = 201
      /\ Has(req.body, "usageLimitPerUser")
      /\ req'.op = "best" /\ res'.status = 200
      /\ res'.coupon = res.coupon)
       => LimitUnit
            * usageCount(userUsage, req'.body.userContext.userId, res.coupon.code)
            < req.body.usageLimitPerUser]_vars

-----------------------------------------------------------------------------
(* C4: the validity window *)

\* C4: a selection at the instant now returns a coupon only if
\* startDate <= now <= endDate, and it returns no coupon only if no catalog
\* coupon passes the filters with the window taken inclusive at both ends.
C4_WindowInclusive ==
  /\ Won => InWindow(res.coupon, now)
  /\ (Selected /\ res.coupon = NoCoupon) =>
       \A c \in Catalog : ~Survives(c, userUsage, ReqUser, ReqCart, now)

\* a coupon was returned at its endDate while an expired coupon offered more
C4_Witness ==
  /\ Won
  /\ now = GetTime(res.coupon.endDate)
  /\ \E c \in Catalog :
       /\ GetTime(c.endDate) < now
       /\ checkEligibility(c, ReqUser, ReqCart)
       /\ calculateDiscount(c, ReqCart) > res.discount

-----------------------------------------------------------------------------
(* C5, C6: the tie-breaks *)

\* the other surviving coupons whose discount equals the returned one
DiscountTies == {c \in OtherSurvivors : calculateDiscount(c, ReqCart) = res.discount}

\* C5: no surviving coupon with the returned discount ends before the returned
\* coupon does.
C5_EarliestEndDateWins ==
  Won => \A c \in DiscountTies :
           GetTime(res.coupon.endDate) <= GetTime(c.endDate)

\* the returned coupon beat a coupon with the same discount and a later endDate
C5_Witness ==
  /\ Won
  /\ \E c \in DiscountTies : GetTime(res.coupon.endDate) < GetTime(c.endDate)

\* C6: among the surviving coupons equal on discount and endDate instant, the
\* returned one has the smallest code in code point order.
C6_SmallestCodePointWins ==
  Won => \A c \in DiscountTies :
           GetTime(c.endDate) = GetTime(res.coupon.endDate)
             => CodePointCompare(res.coupon.code, c.code) < 0

-----------------------------------------------------------------------------
(* C7, C8: the effect on the usage counts *)

AllCodes == CouponCodes

\* C7: a selection that returns coupon c for user u raises the usage count of
\* (u, c.code) by one, with its entry in the tracker, and leaves every other
\* count and the catalog unchanged.
C7_WinRecordsOneUse ==
  [][(req'.op = "best" /\ res'.status = 200 /\ res'.coupon # NoCoupon) =>
       LET u == req'.body.userContext.userId
           code == res'.coupon.code
       IN  /\ coupons' = coupons
           /\ u \in DOMAIN userUsage'
           /\ code \in DOMAIN userUsage'[u]
           /\ \A v \in UserIds, c \in AllCodes :
                usageCount(userUsage', v, c) =
                  usageCount(userUsage, v, c)
                    + (IF v = u /\ c = code THEN 1 ELSE 0)]_vars

\* a first use was recorded while the other user had a recorded use
C7_Witness ==
  /\ Won
  /\ usageCount(userUsage, ReqUser.userId, res.coupon.code) = 1
  /\ \E v \in UserIds \ {ReqUser.userId}, c \in AllCodes :
       usageCount(userUsage, v, c) > 0

\* C8: a selection in which no coupon survives the filters returns (null, 0);
\* every step other than a selection that returns a coupon leaves the usage
\* tracker unchanged; no usage count ever decreases.
C8_OnlyWinsChangeUsage ==
  [][/\ (/\ req'.op = "best" /\ res'.status = 200
         /\ \A c \in Catalog :
              ~Survives(c, userUsage, req'.body.userContext, req'.body.cart, now'))
          => (res'.coupon = NoCoupon /\ res'.discount = 0)
     /\ ~(req'.op = "best" /\ res'.status = 200 /\ res'.coupon # NoCoupon)
          => userUsage' = userUsage
     /\ \A v \in UserIds, c \in AllCodes :
          usageCount(userUsage', v, c) >= usageCount(userUsage, v, c)]_vars

\* a selection found no surviving coupon in a catalog that holds an exhausted
\* one, with uses on record
C8_Witness ==
  /\ Selected
  /\ res.coupon = NoCoupon
  /\ \E c \in Catalog : InWindow(c, now) /\ ~LimitLeft(c, userUsage, ReqUser.userId)

-----------------------------------------------------------------------------
(* The eligibility check on its own: a coupon is built from a submitted rule  *)
(* set by the Coupon constructor and checked against a user and a cart        *)

\* the field k left out, or set to one of the values
Optional(k, values) == {EmptyObject} \cup {[j \in {k} |-> v] : v \in values}

\* the rule sets: every field absent or present, the arrays also empty
RuleSets ==
  {t @@ ls @@ op @@ fo @@ co @@ cv @@ ac @@ ec @@ ic :
     t  \in Optional("allowedUserTiers", {<<"GOLD">>, << >>}),
     ls \in Optional("minLifetimeSpend", {5}),
     op \in Optional("minOrdersPlaced", {2}),
     fo \in Optional("firstOrderOnly", {TRUE, FALSE}),
     co \in Optional("allowedCountries", {<<"IN">>}),
     cv \in Optional("minCartValue", {4}),
     ac \in Optional("applicableCategories", {<<CatUpperE>>}),
     ec \in Optional("excludedCategories", {<<CatLowerB>>}),
     ic \in Optional("minItemsCount", {2})}

UserZero ==
  [userId |-> "u2", userTier |-> "NEW", country |-> "US",
   lifetimeSpend |-> 0, ordersPlaced |-> 0]

EligibilityUsers == {UserGold, UserZero, UserNew}

EligibilityCarts ==
  {[items |-> << >>],
   [items |-> <<Item(CatLowerE, 2, 2)>>],
   [items |-> <<Item(CatUpperE, 2, 1), Item(CatLowerB, 1, 2)>>],
   [items |-> <<Item(<<66>>, 4, 2)>>]}

InitElig ==
  /\ coupons = << >>
  /\ userUsage = EmptyObject
  /\ now = 0
  /\ \E rules \in RuleSets, u \in EligibilityUsers, c \in EligibilityCarts :
       req = [op |-> "eligibility",
              data |-> With(BaseCoupon(<<97>>), "eligibility", rules),
              userContext |-> u, cart |-> c]
  /\ res = [status |-> 0]

\* EligibilityService.checkEligibility on the coupon made from the submission
EvaluateEligibility ==
  /\ req.op = "eligibility"
  /\ res.status = 0
  /\ res' = [status |-> 200,
             eligible |-> checkEligibility(Coupon(req.data), req.userContext, req.cart)]
  /\ UNCHANGED <<coupons, userUsage, now, req>>

NextElig == EvaluateEligibility

SpecElig == InitElig /\ [][NextElig]_vars

-----------------------------------------------------------------------------
(* C9: the eligibility rules *)

Evaluated == req.op = "eligibility" /\ res.status = 200

\* the rule set as submitted
Rules == req.data.eligibility

Members(array) == {array[i] : i \in DOMAIN array}

\* the categories of the cart items and of a rule, letter case set aside
LowerCategories(items) == {ToLowerCase(items[i].category) : i \in DOMAIN items}
LowerMembers(array) == {ToLowerCase(array[i]) : i \in DOMAIN array}

\* the checks of the rule fields other than the three on the user's numbers
OtherRulesPass(rules, user, cart) ==
  /\ Has(rules, "allowedUserTiers") => user.userTier \in Members(rules.allowedUserTiers)
  /\ Has(rules, "allowedCountries") => user.country \in Members(rules.allowedCountries)
  /\ Has(rules, "minCartValue") => SumValue(cart.items) >= rules.minCartValue
  /\ Has(rules, "applicableCategories") =>
       LowerCategories(cart.items) \cap LowerMembers(rules.applicableCategories) # {}
  /\ Has(rules, "excludedCategories") =>
       LowerCategories(cart.items) \cap LowerMembers(rules.excludedCategories) = {}
  /\ Has(rules, "minItemsCount") => SumQuantity(cart.items) >= rules.minItemsCount

\* lifetimeSpend >= minLifetimeSpend, ordersPlaced >= minOrdersPlaced and
\* ordersPlaced = 0 when firstOrderOnly, for a user who states both numbers
NumberRulesPass(rules, user) ==
  /\ Has(rules, "minLifetimeSpend") =>
       (Has(user, "lifetimeSpend") /\ user.lifetimeSpend >= rules.minLifetimeSpend)
  /\ Has(rules, "minOrdersPlaced") =>
       (Has(user, "ordersPlaced") /\ user.ordersPlaced >= rules.minOrdersPlaced)
  /\ (Has(rules, "firstOrderOnly") /\ rules.firstOrderOnly) =>
       (Has(user, "ordersPlaced") /\ user.ordersPlaced = 0)

\* the same checks, passed also by a user who states no such number
NumberRulesPassOrUnstated(rules, user) ==
  /\ Has(rules, "minLifetimeSpend") =>
       (~Has(user, "lifetimeSpend") \/ user.lifetimeSpend >= rules.minLifetimeSpend)
  /\ Has(rules, "minOrdersPlaced") =>
       (~Has(user, "ordersPlaced") \/ user.ordersPlaced >= rules.minOrdersPlaced)
  /\ (Has(rules, "firstOrderOnly") /\ rules.firstOrderOnly) =>
       (~Has(user, "ordersPlaced") \/ user.ordersPlaced = 0)

\* C9 as stated: checkEligibility is true exactly when every rule field that
\* is present passes its check (userTier in allowedUserTiers, lifetimeSpend >=
\* minLifetimeSpend, ordersPlaced >= minOrdersPlaced, ordersPlaced = 0 when
\* firstOrderOnly, country in allowedCountries, cartValue >= minCartValue, a
\* cart category in applicableCategories, none in excludedCategories, total
\* quantity >= minItemsCount); an absent rule field restricts nothing.
C9_EligibleIffEveryRulePasses ==
  Evaluated =>
    (res.eligible <=> /\ OtherRulesPass(Rules, req.userContext, req.cart)
                      /\ NumberRulesPass(Rules, req.userContext))

\* C9 amended: the same, where a user context that states no lifetimeSpend
\* (no ordersPlaced) passes the minLifetimeSpend check (the minOrdersPlaced
\* and firstOrderOnly checks).
C9_EligibleIffEveryRulePassesOrUnstated ==
  Evaluated =>
    (res.eligible <=> /\ OtherRulesPass(Rules, req.userContext, req.cart)
                      /\ NumberRulesPassOrUnstated(Rules, req.userContext))

\* a coupon with all nine rule fields was found eligible for a user who states
\* both numbers
C9_Witness ==
  /\ Evaluated
  /\ res.eligible
  /\ Cardinality(DOMAIN Rules) = 9
  /\ Has(req.userContext, "lifetimeSpend")
  /\ Has(req.userContext, "ordersPlaced")

-----------------------------------------------------------------------------
(* C10: letter case of the categories *)

\* a letter in its two cases
CaseForms(ch) ==
  IF ch \in 65..90 THEN {ch, ch + 32}
  ELSE IF ch \in 97..122 THEN {ch, ch - 32}
  ELSE {ch}

\* the strings that differ from s in letter case only
Recased(s) ==
  {t \in [DOMAIN s -> UNION {CaseForms(s[i]) : i \in DOMAIN s}] :
     \A i \in DOMAIN s : t[i] \in CaseForms(s[i])}

\* the arrays of strings that differ from the array in letter case only
RecasedArray(array) ==
  {t \in [DOMAIN array -> UNION {Recased(array[i]) : i \in DOMAIN array}] :
     \A i \in DOMAIN array : t[i] \in Recased(array[i])}

\* the rule sets that differ from rules in the letter case of categories only
RecasedRules(rules) ==
  {[k \in DOMAIN rules |->
      IF k = "applicableCategories" THEN a
      ELSE IF k = "excludedCategories" THEN e
      ELSE rules[k]] :
     a \in (IF Has(rules, "applicableCategories")
              THEN RecasedArray(rules.applicableCategories) ELSE {<< >>}),
     e \in (IF Has(rules, "excludedCategories")
              THEN RecasedArray(rules.excludedCategories) ELSE {<< >>})}

\* the carts that differ from cart in the letter case of item categories only
RecasedCarts(cart) ==
  {[items |-> [i \in DOMAIN cart.items |->
                 [cart.items[i] EXCEPT !.category = cats[i]]]] :
     cats \in RecasedArray([i \in DOMAIN cart.items |-> cart.items[i].category])}

\* the outcome of the two category checks alone for a stored coupon
CategoryOutcome(coupon, cart) ==
  checkCartEligibility(
    [k \in DOMAIN coupon.eligibility
            \cap {"applicableCategories", "excludedCategories"} |->
       coupon.eligibility[k]],
    cart)

IsLowerCase(s) == \A i \in DOMAIN s : s[i] \notin 65..90

\* C10: for a coupon made by the constructor from a submission, the stored
\* categories are lower case, and the outcome of the category checks and of
\* the whole eligibility check is the same for every change of letter case in
\* the submitted categories and in the categories of the cart items.
C10_CategoryCaseInsensitive ==
  Evaluated =>
    /\ \A k \in DOMAIN Coupon(req.data).eligibility
                 \cap {"applicableCategories", "excludedCategories"} :
         \A i \in DOMAIN Coupon(req.data).eligibility[k] :
           IsLowerCase(Coupon(req.data).eligibility[k][i])
    /\ \A rules \in RecasedRules(Rules), cart \in RecasedCarts(req.cart) :
         LET coupon == Coupon(With(req.data, "eligibility", rules))
         IN  /\ CategoryOutcome(coupon, cart)
                  = CategoryOutcome(Coupon(req.data), req.cart)
             /\ checkEligibility(coupon, req.userContext, cart) = res.eligible

\* a coupon whose categories were submitted in upper case was found eligible
\* for a cart whose matching item is in lower case
C10_Witness ==
  /\ Evaluated
  /\ res.eligible
  /\ Has(Rules, "applicableCategories")
  /\ \E i \in DOMAIN Rules.applicableCategories :
       ~IsLowerCase(Rules.applicableCategories[i])
  /\ \A i \in DOMAIN req.cart.items : IsLowerCase(req.cart.items[i].category)
  /\ req.cart.items # << >>

-----------------------------------------------------------------------------
(* The discount computation on its own: a coupon is built from a submission  *)
(* by the Coupon constructor and its discount is computed for a cart         *)

\* FLAT and PERCENT submissions of several magnitudes, with and without a cap
DiscountSubmissions ==
  {With(With(BaseCoupon(<<97>>), "discountType", type), "discountValue", value) @@ cap :
     type \in {"FLAT", "PERCENT"},
     value \in {1, 4, 50, 100, 150},
     cap \in Optional("maxDiscountAmount", {1, 3})}

\* carts of value 0, 4, 7 and -4, and a cart object without an items array
DiscountCarts ==
  {EmptyObject,
   [items |-> << >>],
   [items |-> <<Item(CatLowerE, 4, 1)>>],
   [items |-> <<Item(CatLowerE, 2, 2), Item(CatLowerB, 1, 3)>>],
   [items |-> <<Item(CatLowerE, 4, 0)>>],
   [items |-> <<Item(CatLowerE, -4, 1)>>]}

InitDiscount ==
  /\ coupons = << >>
  /\ userUsage = EmptyObject
  /\ now = 0
  /\ \E data \in DiscountSubmissions, cart \in DiscountCarts :
       req = [op |-> "discount", data |-> data, cart |-> cart]
  /\ res = [status |-> 0]

\* DiscountService.calculateDiscount on the coupon made from the submission
ComputeDiscount ==
  /\ req.op = "discount"
  /\ res.status = 0
  /\ res' = [status |-> 200,
             discount |-> calculateDiscount(Coupon(req.data), req.cart)]
  /\ UNCHANGED <<coupons, userUsage, now, req>>

NextDiscount == ComputeDiscount

SpecDiscount == InitDiscount /\ [][NextDiscount]_vars

-----------------------------------------------------------------------------
(* C11, C12: the discount amount *)

Computed == req.op = "discount" /\ res.status = 200

\* the sum of unitPrice * quantity over the items of the cart
CartTotal(cart) ==
  LET items == IF Has(cart, "items") THEN cart.items ELSE << >>
      RECURSIVE Total(_)
      Total(n) == IF n = 0 THEN 0
                  ELSE Total(n - 1) + items[n].unitPrice * items[n].quantity
  IN  Total(Len(items))

SetMin(S) == CHOOSE x \in S : \A y \in S : x <= y

C12_DiscountWithinCart ==
  (/\ Computed
   /\ validate(req.data) = << >>
   /\ BestRequestError([userContext |-> UserGold, cart |-> req.cart]) = "")
    => /\ 0 <= res.discount
       /\ res.discount <= Hundred * CartTotal(req.cart)
       /\ req.cart.items = << >> => res.discount = 0

-----------------------------------------------------------------------------
(* C13: the upsert of an existing code *)

\* the record holds the fields of the submission and nothing else: a field the
\* submission leaves out is null (an empty rule set for eligibility), and the
\* categories of the rule set are those submitted, in lower case
HoldsExactly(record, data) ==
  /\ \A k \in {"code", "description", "discountType", "discountValue",
               "startDate", "endDate"} : record[k] = data[k]
  /\ \A k \in {"maxDiscountAmount", "usageLimitPerUser"} :
       record[k] = (IF Has(data, k) THEN data[k] ELSE Null)
  /\ LET rules == IF Has(data, "eligibility") THEN data.eligibility ELSE EmptyObject
     IN  /\ DOMAIN record.eligibility = DOMAIN rules
         /\ \A k \in DOMAIN rules :
              IF k \in {"applicableCategories", "excludedCategories"}
                THEN /\ Len(record.eligibility[k]) = Len(rules[k])
                     /\ \A i \in DOMAIN rules[k] :
                          record.eligibility[k][i] = ToLowerCase(rules[k][i])
                ELSE record.eligibility[k] = rules[k]

\* C13: an accepted POST /coupons for a code of the catalog leaves the record
\* of that code holding exactly the fields of the submission, every other
\* record and the usage counts unchanged; and the counts recorded for the code
\* count against the submitted limit: the selection that follows returns the
\* coupon only to a user with fewer recorded uses than that limit.
C13_UpsertReplacesWholesale ==
  [][/\ (/\ req'.op = "create" /\ res'.status = 201
         /\ req'.body.code \in Codes(coupons))
          => /\ Len(coupons') = Len(coupons)
             /\ \A i \in DOMAIN coupons :
                  IF coupons[i].code = req'.body.code
                    THEN HoldsExactly(coupons'[i], req'.body)
                    ELSE coupons'[i] = coupons[i]
             /\ userUsage' = userUsage
     /\ (/\ req.op = "create" /\ res.status = 201
         /\ Has(req.body, "usageLimitPerUser")
         /\ req'.op = "best" /\ res'.status = 200
         /\ res'.coupon # NoCoupon
         /\ res'.coupon.code = req.body.code)
          => LimitUnit * usageCount(userUsage, req'.body.userContext.userId,
                                    req.body.code)
               < req.body.usageLimitPerUser]_vars

-----------------------------------------------------------------------------
(* The catalog on its own: POST /coupons with submissions of every kind *)

\* accepted submissions for both codes: the base coupon, a capped PERCENT
\* coupon, the limits 1 and 1.5, a rule set with numbers
CatalogAccepted(code) ==
  LET base == BaseCoupon(code)
  IN  {base,
       With(With(With(base, "discountType", "PERCENT"), "discountValue", 50),
            "maxDiscountAmount", 3),
       With(base, "usageLimitPerUser", 1 * LimitUnit),
       With(base, "usageLimitPerUser", 1 * LimitUnit + 1),
       With(base, "eligibility", [minLifetimeSpend |-> 0, minCartValue |-> 4])}

\* submissions that each break one rule of the validation
CatalogRejected ==
  LET base == BaseCoupon(<<97>>)
      Rule(k, v) == With(base, "eligibility", [j \in {k} |-> v])
  IN  {With(base, "code", << >>),
       With(base, "code", <<32>>),
       [k \in DOMAIN base \ {"code"} |-> base[k]],
       [k \in DOMAIN base \ {"description"} |-> base[k]],
       With(base, "discountType", "BOGO"),
       With(base, "discountValue", 0),
       With(base, "discountValue", -4),
       With(base, "maxDiscountAmount", 0),
       With(base, "maxDiscountAmount", -3),
       With(base, "startDate", BadDate),
       With(base, "endDate", BadDate),
       [k \in DOMAIN base \ {"endDate"} |-> base[k]],
       With(base, "startDate", <<3, 0>>),
       With(base, "usageLimitPerUser", -1 * LimitUnit),
       Rule("minLifetimeSpend", -1),
       Rule("minOrdersPlaced", -1),
       Rule("minCartValue", -1),
       Rule("minItemsCount", -1)}

CatalogInputs ==
  UNION {CatalogAccepted(code) : code \in CouponCodes} \cup CatalogRejected

NextCatalog == \E couponData \in CatalogInputs : CreateCoupon(couponData)

SpecCatalog == Init /\ [][NextCatalog]_vars

-----------------------------------------------------------------------------
(* C14: the validation rules *)

\* the rules of the validation on the fields of a submission or of a record;
\* a field that is absent or null is not present
NumericRules == {"minLifetimeSpend", "minOrdersPlaced", "minCartValue", "minItemsCount"}

MeetsRules(c) ==
  /\ Has(c, "code") /\ c.code # << >>
  /\ Has(c, "discountType") /\ c.discountType \in {"FLAT", "PERCENT"}
  /\ Has(c, "discountValue") /\ c.discountValue > 0
  /\ Field(c, "maxDiscountAmount") # Null => c.maxDiscountAmount > 0
  /\ Has(c, "startDate") /\ GetTime(c.startDate) # NaN
  /\ Has(c, "endDate") /\ GetTime(c.endDate) # NaN
  /\ GetTime(c.startDate) <= GetTime(c.endDate)
  /\ Field(c, "usageLimitPerUser") # Null =>
       (c.usageLimitPerUser >= 0 /\ c.usageLimitPerUser % LimitUnit = 0)
  /\ Has(c, "eligibility") =>
       \A k \in NumericRules \cap DOMAIN c.eligibility :
          c.eligibility[k] # Null => c.eligibility[k] >= 0

\* C14: after every POST /coupons every coupon of the catalog meets the
\* validation rules (code a non-empty string, discountType FLAT or PERCENT,
\* discountValue > 0, maxDiscountAmount > 0 if present, parseable dates with
\* startDate <= endDate, usageLimitPerUser a non-negative integer if present,
\* numeric eligibility fields non-negative if present), and a submission that
\* breaks a rule is answered 400 and leaves the catalog unchanged.
C14_CatalogMeetsValidationRules ==
  [][/\ \A i \in DOMAIN coupons' : MeetsRules(coupons'[i])
     /\ (req'.op = "create" /\ ~MeetsRules(req'.body))
          => (res'.status = 400 /\ coupons' = coupons)]_vars

-----------------------------------------------------------------------------
(* C15: the usage counts of other users *)

\* the usage trackers that agree with usage on the user u and give every
\* other user any counts
UsageVariations(usage, u) ==
  {[w \in (DOMAIN usage \cap {u}) \cup (UserIds \ {u}) |->
      IF w = u THEN usage[u] ELSE f[w]] :
     f \in [UserIds \ {u} -> [AllCodes -> 0..MaxUses]]}

\* C15: the coupon and discount returned to user u by a selection are those
\* the selection returns, with the same catalog, cart and instant, for every
\* other content of the usage counts of the users other than u.
C15_UsageNotShared ==
  [][(req'.op = "best" /\ res'.status = 200) =>
       \A v \in UsageVariations(userUsage, req'.body.userContext.userId) :
          SelectionResult(Ranked(coupons, v, req'.body, now'))
            = <<res'.coupon, res'.discount>>]_vars

\* a user was given a coupon that the other user has used up to its limit
C15_Witness ==
  /\ Won
  /\ res.coupon.usageLimitPerUser # Null
  /\ \E w \in UserIds \ {ReqUser.userId} :
       ~LimitLeft(res.coupon, userUsage, w)

-----------------------------------------------------------------------------
(* The routes with the inputs that validation lets through: codes that are   *)
(* canonically equivalent strings, and a usage limit that is not an integer  *)

\* the codes U+00E1 and U+0061 U+0301: two strings, the same text
EquivalentCodes == {<<225>>, <<97, 769>>}

\* the base coupon, the limits 1 and 1.5, and 150 percent
WideSubmissions(code) ==
  LET base == BaseCoupon(code)
  IN  {base,
       With(base, "usageLimitPerUser", 1 * LimitUnit),
       With(base, "usageLimitPerUser", 1 * LimitUnit + 1),
       With(With(base, "discountType", "PERCENT"), "discountValue", 150)}

WideInputs == UNION {WideSubmissions(code) : code \in EquivalentCodes}

\* carts of value 4, 0 and -4
WideCarts ==
  {[items |-> <<Item(CatLowerE, 4, 1)>>],
   [items |-> << >>],
   [items |-> <<Item(CatLowerE, -4, 1)>>]}

WideBodies ==
  {[userContext |-> u, cart |-> c] : u \in {UserGold, UserNew}, c \in WideCarts}

NextWide ==
  \/ \E couponData \in WideInputs : CreateCoupon(couponData)
  \/ \E body \in WideBodies, instant \in Instants : BestCoupon(body, instant)

SpecWide == Init /\ [][NextWide]_vars

-----------------------------------------------------------------------------
(* C16: the usage counts and the limits *)

\* C16: in every reachable state, for every user u and every coupon c of the
\* catalog whose record has a usageLimitPerUser, the usage count of
\* (u, c.code) is at most c.usageLimitPerUser.
C16_CountWithinLimit ==
  \A u \in UserIds, c \in Catalog :
     c.usageLimitPerUser # Null =>
       LimitUnit * usageCount(userUsage, u, c.code) <= c.usageLimitPerUser

-----------------------------------------------------------------------------
(* C17: the check of the limit and the increment are one step *)

\* C17: the handler of a selection runs to its end before the next request is
\* handled, so in every order in which requests are handled a usage count
\* changes only by a selection that returns that coupon to that user, by
\* exactly one, and only when the count read by that same selection was below
\* the limit of the returned record; the count does not pass the limit, and
\* once the last remaining use is granted the coupon no longer passes the
\* limit check for that user: of two requests for one remaining use, only the
\* first is granted.
C17_CheckAndIncrementAtomic ==
  [][\A u \in UserIds, code \in AllCodes :
       LET pre  == usageCount(userUsage, u, code)
           post == usageCount(userUsage', u, code)
       IN  post # pre =>
             /\ req'.op = "best" /\ res'.status = 200
             /\ req'.body.userContext.userId = u
             /\ res'.coupon # NoCoupon
             /\ res'.coupon.code = code
             /\ \E i \in DOMAIN coupons : coupons[i] = res'.coupon
             /\ post = pre + 1
             /\ res'.coupon.usageLimitPerUser # Null =>
                  /\ LimitUnit * pre < res'.coupon.usageLimitPerUser
                  /\ LimitUnit * post <= res'.coupon.usageLimitPerUser
                  /\ LimitUnit * post = res'.coupon.usageLimitPerUser
                       => ~UnderUsageLimit(res'.coupon, userUsage', u)]_vars

\* a second request by a user for a coupon of limit 1, in its window and
\* eligible, was refused after the first one was granted
C17_Witness ==
  /\ Selected
  /\ res.coupon = NoCoupon
  /\ \E c \in Catalog :
       /\ c.usageLimitPerUser = 1 * LimitUnit
       /\ usageCount(userUsage, ReqUser.userId, c.code) = 1
       /\ InWindow(c, now)
       /\ checkEligibility(c, ReqUser, ReqCart)

-----------------------------------------------------------------------------
(* The routes over a catalog that also holds records put into the exported   *)
(* Map without validation                                                     *)

\* records for the code "B" whose endDate or startDate is not a date
MalformedRecords ==
  {Coupon(With(BaseCoupon(<<66>>), "endDate", BadDate)),
   Coupon(With(With(BaseCoupon(<<66>>), "discountValue", 2), "startDate", BadDate))}

\* for the code "a": the base coupon, and FLAT 2 with the limit 1
DirectSubmissions ==
  {BaseCoupon(<<97>>),
   With(With(BaseCoupon(<<97>>), "discountValue", 2),
        "usageLimitPerUser", 1 * LimitUnit),
   BaseCoupon(<<66>>)}

NextDirect ==
  \/ \E coupon \in MalformedRecords : PutCoupon(coupon)
  \/ \E couponData \in DirectSubmissions : CreateCoupon(couponData)
  \/ \E body \in WideBodies, instant \in Instants : BestCoupon(body, instant)

SpecDirect == Init /\ [][NextDirect]_vars

-----------------------------------------------------------------------------
(* C18: a catalog entry with a malformed date *)

Malformed(c) == GetTime(c.startDate) = NaN \/ GetTime(c.endDate) = NaN

\* the catalog without its malformed entries
WellFormed(catalog) ==
  LET Parses(c) == ~Malformed(c) IN SelectSeq(catalog, Parses)

\* C18: a selection over a catalog that holds an entry whose startDate or
\* endDate is not a date is answered with a result, not an error, and the
\* result is that of the selection over the other entries: their best coupon,
\* or (null, 0).
C18_MalformedEntryExcluded ==
  [][(/\ req'.op = "best"
      /\ BestRequestError(req'.body) = ""
      /\ \E i \in DOMAIN coupons : Malformed(coupons[i]))
       => /\ res'.status = 200
          /\ <<res'.coupon, res'.discount>> =
               SelectionResult(Ranked(WellFormed(coupons), userUsage,
                                      req'.body, now'))]_vars

-----------------------------------------------------------------------------
(* C19: the discount of a returned coupon *)

\* C19 as stated: when a selection returns a coupon, the returned discount is
\* strictly positive, for every accepted cart, the empty one included.
C19_WinHasPositiveDiscount ==
  Won => res.discount > 0

\* C19 amended: when a selection returns a coupon, one use of it is on record
\* and the returned discount is strictly positive exactly when the value of
\* the cart is; for a cart of value 0, an empty items array included, the
\* coupon is returned with the discount 0.
C19_PositiveDiscountIffPositiveCart ==
  Won =>
    /\ usageCount(userUsage, ReqUser.userId, res.coupon.code) >= 1
    /\ res.discount > 0 <=> CartTotal(ReqCart) > 0
    /\ CartTotal(ReqCart) = 0 => res.discount = 0

\* a coupon was returned for an empty cart, with discount 0, its use recorded
C19_Witness ==
  /\ Won
  /\ ReqCart.items = << >>
  /\ res.discount = 0
  /\ usageCount(userUsage, ReqUser.userId, res.coupon.code) >= 1

-----------------------------------------------------------------------------
(* C20: the insertion order of the catalog *)

\* the catalogs that hold the records of catalog in any insertion order
Reordered(catalog) ==
  {[i \in DOMAIN catalog |-> catalog[f[i]]] :
     f \in {g \in [DOMAIN catalog -> DOMAIN catalog] :
              \A i, j \in DOMAIN catalog : g[i] = g[j] => i = j}}

\* the code of the returned coupon, and the discount
CodeAndDiscount(result) ==
  <<IF result[1] = NoCoupon THEN << >> ELSE result[1].code, result[2]>>

\* C20: a selection returns the coupon code and discount that it returns, with
\* the same usage counts, user, cart and instant, for every other insertion
\* order of the same records in the catalog.
C20_InsertionOrderIrrelevant ==
  [][(req'.op = "best" /\ res'.status = 200) =>
       \A catalog \in Reordered(coupons) :
          CodeAndDiscount(SelectionResult(Ranked(catalog, userUsage,
                                                 req'.body, now')))
            = CodeAndDiscount(<<res'.coupon, res'.discount>>)]_vars

-----------------------------------------------------------------------------
(* The service beside the routes: CouponService.findBestCoupon is called on  *)
(* the catalog that the routes keep                                           *)

NextService ==
  \/ \E coupon \in MalformedRecords : PutCoupon(coupon)
  \/ \E couponData \in DirectSubmissions : CreateCoupon(couponData)
  \/ \E body \in WideBodies, instant \in Instants : BestCoupon(body, instant)
  \/ \E body \in WideBodies, instant \in Instants : FindBestCoupon(body, instant)

SpecService == Init /\ [][NextService]_vars

-----------------------------------------------------------------------------
(* C21: the service and the pipeline of the route *)

\* no coupon of the catalog that is in its window at t has a limit that the
\* user has reached
NoLimitReached(catalog, usage, userId, t) ==
  \A i \in DOMAIN catalog :
     (InWindow(catalog[i], t) /\ catalog[i].usageLimitPerUser # Null)
       => LimitUnit * usageCount(usage, userId, catalog[i].code)
            < catalog[i].usageLimitPerUser

\* what the pipeline of the route returns for the catalog and usage counts
RouteResult(catalog, usage, body, t) == SelectionResult(Ranked(catalog, usage, body, t))

\* the value returned by the service is the pair (coupon, discount)
SamePair(result, pair) == result = [coupon |-> pair[1], discount |-> pair[2]]

\* the same, where the service returns null when the pair is (null, 0)
SamePairOrNull(result, pair) ==
  IF pair[1] = NoCoupon THEN result = EmptyObject /\ pair[2] = 0
  ELSE SamePair(result, pair)

====
